---- MODULE Spec2Model ----
(***************************************************************************)
(* kitproj/splunk-cli: the search-job orchestration of the two front ends, *)
(* runSearch (main.go, command line) and searchHandler (mcp.go, tool       *)
(* call), over the REST client of internal/splunk.                         *)
(*                                                                         *)
(* One behaviour is one search invocation by one front end against a       *)
(* remote service whose answers are fixed by `remote`, optionally followed *)
(* by a second invocation by the other front end against the same answers. *)
(* A "request" is a call of a client method (RunSearch, GetSearchStatus,   *)
(* GetSearchResults); `inflight` holds the requests that reached the       *)
(* transport and are not answered yet.                                     *)
(***************************************************************************)
EXTENDS Integers, Sequences, FiniteSets, TLC

VARIABLES
    fe,            \* the front end of this invocation: "cli" (runSearch) or "mcp" (searchHandler)
    round,         \* 1 for the first invocation, 2 for the second
    prev,          \* what the first invocation did (a Summary), NoPrev during it
    remote,        \* the answers of the remote service (a member of Scripts)
    pc,            \* where the handler is: start, submit, status, fetch (blocked in a call),
                   \* sleep (time.Sleep), select (the select statement), returned
    inflight,      \* requests on the wire
    clock,         \* time units the handler has been polling: since RunSearch returned
                   \* and until the results call
    age,           \* time units the current call has been waiting for its answer
    sleepLeft,     \* units left of the current time.Sleep
    tickReady,     \* ticker.C holds a tick
    timeoutReady,  \* the time.After channel holds its value
    cancelled,     \* ctx is cancelled
    polls,         \* GetSearchStatus calls so far, counted up to MaxRuns + 1
    sid,           \* the job identifier RunSearch returned
    result,        \* what the handler returned
    nSubmit,       \* RunSearch calls so far
    nFetch,        \* GetSearchResults calls so far
    log,           \* the kinds of the calls in order, consecutive status calls merged
    submitOk,      \* RunSearch returned without error
    doneSeen,      \* a status snapshot with isDone set was received
    statusFailed,  \* a GetSearchStatus call returned an error
    lateStatus,    \* a GetSearchStatus call was made after doneSeen or statusFailed
    expiredUndone, \* the deadline elapsed before any done snapshot was received
    cancelPc,      \* pc when ctx was cancelled, "none" before
    callsAfterCancel, \* client calls made after ctx was cancelled
    firstPollAt,   \* clock of the first GetSearchStatus call, -1 before
    httpTimedOut,  \* a call ended by the client's Timeout, its answer never seen
    ending,        \* what made the first call fail or the handler return: the
                   \* stage and the kind of the event, NoEnding before
    queryArg,      \* what was given as the query argument: "string", "number" (a
                   \* tool call's argument of another type) or "missing"
    query,         \* the query argument when it is a string, a sequence of characters
    submitted,     \* the query texts handed to client.RunSearch, in order
    by,            \* the front end that handed over each of them
    maxResultsArg, \* the max_results argument of the tool call: given or not, its value
    resultCount,   \* Content.ResultCount of the done snapshot
    fetchReq,      \* the results request built by GetSearchResults, NoFetch before
    entry,         \* the entry point of the process: "cli" (executeCommand) or
                   \* "mcp" (runMCPServer)
    cfgFile,       \* the config file: readable or not, and the host in it
    keyring,       \* the keyring: for each host an entry or none
    envHost,       \* SPLUNK_HOST ("" when unset)
    envToken,      \* SPLUNK_TOKEN ("" when unset)
    cpc,           \* "start", then "ready" (the client is made) or "failed"
    api,           \* the client made by splunk.NewClient, NoClient before
    credErr,       \* the error the entry point returned, "nil" if none
    sent,          \* the host and token of every request sent so far
    nSent,         \* requests sent so far
    stored,        \* the config file and keyring were written by another process
                   \* after this one started
    fnRuns,        \* calls of the command function fn by executeCommand
    consulted,     \* the sources the entry point read: "file", "envHost",
                   \* "envToken", "keyring"
    callKind,      \* the client method called on its own: submit, status or fetch
    callRaw,       \* what the transport gets back for its request
    callCtxDone,   \* ctx is cancelled when it is called
    answer,        \* what the method returned, NoAnswer before
    hostArg,       \* the host argument of `splunk configure`
    tokenIn,       \* what term.ReadPassword returns: an error or the token typed
    saveConfigEnds,\* how config.SaveConfig would end: "ok", or failing at
                   \* "mkdir", "open" (nothing written) or "write" (the file
                   \* was truncated when it was opened)
    saveTokenEnds, \* how config.SaveToken would end: "ok" or "fail"
    before,        \* the config file and the keyring when configure was called
    confPc,        \* "none" (configure is not run), "start", "returned"
    confErr        \* the error configure returned, "nil" if none

jobVars == <<fe, round, prev, remote, pc, inflight, clock, age, sleepLeft, tickReady,
             timeoutReady, cancelled, polls, sid, result, nSubmit, nFetch, log,
             submitOk, doneSeen, statusFailed, lateStatus, expiredUndone, cancelPc,
             callsAfterCancel, firstPollAt, httpTimedOut, ending>>

queryVars == <<queryArg, query, submitted, by>>

fetchVars == <<maxResultsArg, resultCount, fetchReq>>

credVars == <<entry, cfgFile, keyring, envHost, envToken, cpc, api, credErr, sent,
              nSent, stored, fnRuns, consulted>>

clientVars == <<callKind, callRaw, callCtxDone, answer>>

confVars == <<hostArg, tokenIn, saveConfigEnds, saveTokenEnds, before, confPc, confErr>>

vars == <<jobVars, queryVars, fetchVars, credVars, clientVars, confVars>>

----------------------------------------------------------------------------
\* Program constants and model bounds

\* mcp.go: timeout := time.After(60 * time.Second)
Deadline == 60

\* mcp.go: ticker := time.NewTicker(2 * time.Second)
TickInterval == 2

\* main.go: time.Sleep(2 * time.Second)
SleepInterval == 2

\* doRequest: if resp.StatusCode >= 400
MinErrorStatus == 400

\* NewClient: HTTPClient: &http.Client{Timeout: 30 * time.Second}
HttpTimeout == 30

\* The remote answers "running" at most MaxRuns times before its final answer
\* (or for ever).
MaxRuns == 2

\* Time passes in steps of Step. The sleep, the deadline and the client's
\* Timeout are multiples of the tick interval, so at this granularity every
\* order of timer events, wake-ups and answers is still possible.
Step == TickInterval

\* The clock counts up to MaxClock and then stops (it stays a multiple of the
\* tick interval); time goes on.
MaxClock == 63

\* The query arguments tried end in at most MaxTail further characters.
MaxTail == 1

\* mcp.go: maxResults := request.GetInt("max_results", 100)
DefaultMaxResults == 100

\* main.go: client.GetSearchResults(ctx, sid, 100)
cliMaxCount == 100

\* A process sends at most MaxRequests requests.
MaxRequests == 2

\* The max_results values tried: -1..MaxCount, and the default and its successor.
MaxCount == 5

\* The done snapshot reports 0..MaxRows results.
MaxRows == 5

FrontEnds == {"cli", "mcp"}

Min(a, b) == IF a < b THEN a ELSE b

----------------------------------------------------------------------------
\* The remote service

\* How a request can fail: no response at all, a rejected status (expired
\* token, server error), a body that is not the expected JSON.
FailKinds == {"transport", "http401", "http500", "undecodable"}

\* submit: the answer to POST /services/search/jobs ("nosid": a JSON body
\*   without a "sid" member).
\* runs, final: the answers to the status requests: "running" runs times,
\*   then final for ever ("never": running for ever).
\* fetch: the answer to the results request.
Scripts ==
    [submit : FailKinds, runs : {0}, final : {"never"}, fetch : {"ok"}]
    \cup [submit : {"ok"}, runs : 0..MaxRuns, final : FailKinds, fetch : {"ok"}]
    \cup [submit : {"ok"}, runs : {0}, final : {"never"}, fetch : {"ok"}]
    \cup [submit : {"ok"}, runs : 0..MaxRuns, final : {"done"},
          fetch : {"ok"} \cup FailKinds]
    \cup [submit : {"nosid"}, runs : {0}, final : {"never", "done"}, fetch : {"ok"}]

\* What the transport gets back for an answer of kind k.
RawOf(k) ==
    CASE k = "transport"   -> [arrived |-> FALSE, code |-> 0,   body |-> "none"]
      [] k = "http401"     -> [arrived |-> TRUE,  code |-> 401, body |-> "error"]
      [] k = "http500"     -> [arrived |-> TRUE,  code |-> 500, body |-> "error"]
      [] k = "undecodable" -> [arrived |-> TRUE,  code |-> 200, body |-> "garbage"]
      [] OTHER             -> [arrived |-> TRUE,  code |-> 200, body |-> k]

\* The answer to the n-th status request.
StatusAnswer(n) ==
    IF n <= remote.runs \/ remote.final = "never" THEN "running" ELSE remote.final

----------------------------------------------------------------------------
\* internal/splunk: the client

\* What c.HTTPClient.Do gets for an answer of kind k after waiting `waited`
\* time units: nothing once the client's Timeout has elapsed.
Transport(k, waited) ==
    IF waited >= HttpTimeout THEN RawOf("transport") ELSE RawOf(k)

\* What happened to a call answered by kind k after waiting `waited` units,
\* ctx cancelled or not: told from the events, not from what the client makes
\* of them.
Fate(k, waited, ctxDone) ==
    IF ctxDone THEN "cancelled"
    ELSE IF waited >= HttpTimeout \/ k = "transport" THEN "transport"
    ELSE IF k \in {"http401", "http500"} THEN "rejected"
    ELSE IF k = "undecodable" THEN "undecodable"
    ELSE "ok"

NoEnding == [stage |-> "none", kind |-> "none"]

\* Client.doRequest: the request is bound to ctx; a transport failure (a
\* cancelled ctx included) and a status >= 400 are errors.
doRequest(raw, ctxDone) ==
    IF ctxDone
    THEN [err |-> "failed to execute request: context canceled", status |-> 0,
          detail |-> "none", body |-> "none"]
    ELSE IF ~raw.arrived
    THEN [err |-> "failed to execute request", status |-> 0, detail |-> "none",
          body |-> "none"]
    ELSE IF raw.code >= MinErrorStatus
    THEN [err |-> "API request failed with status", status |-> raw.code,
          detail |-> raw.body, body |-> "none"]
    ELSE [err |-> "nil", status |-> 0, detail |-> "none", body |-> raw.body]

\* json.NewDecoder(resp.Body).Decode
Decodes(body) == body # "garbage"

\* The "sid" member of a decoded body: "" when it has none.
SidOf(body) == IF body = "ok" THEN "sid1" ELSE ""

\* Client.RunSearch: the error carries the status and body of a rejected
\* request (status, detail).
RunSearch(raw, ctxDone) ==
    LET r == doRequest(raw, ctxDone) IN
    IF r.err # "nil"
    THEN [err |-> r.err, status |-> r.status, detail |-> r.detail, sid |-> ""]
    ELSE IF ~Decodes(r.body)
    THEN [err |-> "failed to decode response", status |-> 0, detail |-> "none", sid |-> ""]
    ELSE [err |-> "nil", status |-> 0, detail |-> "none", sid |-> SidOf(r.body)]

\* Client.GetSearchStatus
GetSearchStatus(raw, ctxDone) ==
    LET r == doRequest(raw, ctxDone) IN
    IF r.err # "nil"
    THEN [err |-> r.err, status |-> r.status, detail |-> r.detail, IsDone |-> FALSE]
    ELSE IF ~Decodes(r.body)
    THEN [err |-> "failed to decode response", status |-> 0, detail |-> "none",
          IsDone |-> FALSE]
    ELSE [err |-> "nil", status |-> 0, detail |-> "none", IsDone |-> (r.body = "done")]

\* Client.GetSearchResults
GetSearchResults(raw, ctxDone) ==
    LET r == doRequest(raw, ctxDone) IN
    IF r.err # "nil"
    THEN [err |-> r.err, status |-> r.status, detail |-> r.detail, decoded |-> FALSE]
    ELSE IF ~Decodes(r.body)
    THEN [err |-> "failed to decode response", status |-> 0, detail |-> "none",
          decoded |-> FALSE]
    ELSE [err |-> "nil", status |-> 0, detail |-> "none", decoded |-> TRUE]

\* A client method called on its own, for every response.

\* Statuses below and above the successful ones and at the limits of doRequest's
\* test; bodies that decode (with and without the members looked for) and one
\* that does not.
StatusCodes == {200, 201, 300, 399, 400, 401, 500}

Bodies == {"ok", "nosid", "running", "done", "error", "garbage"}

Responses ==
    {[arrived |-> FALSE, code |-> 0, body |-> "none"]}
        \cup [arrived : {TRUE}, code : StatusCodes, body : Bodies]

NoAnswer == [err |-> "none", status |-> 0, detail |-> "none", value |-> "none"]

\* No method is called on its own.
NoCall ==
    /\ callKind = "none"
    /\ callRaw = [arrived |-> FALSE, code |-> 0, body |-> "none"]
    /\ callCtxDone = FALSE
    /\ answer = NoAnswer

callRunSearch ==
    /\ callKind = "submit"
    /\ answer = NoAnswer
    /\ LET r == RunSearch(callRaw, callCtxDone) IN
       answer' = [err |-> r.err, status |-> r.status, detail |-> r.detail,
                  value |-> IF r.err = "nil" THEN "sid" ELSE "none"]
    /\ UNCHANGED <<callKind, callRaw, callCtxDone, jobVars, queryVars, fetchVars, credVars,
                   confVars>>

callGetSearchStatus ==
    /\ callKind = "status"
    /\ answer = NoAnswer
    /\ LET r == GetSearchStatus(callRaw, callCtxDone) IN
       answer' = [err |-> r.err, status |-> r.status, detail |-> r.detail,
                  value |-> IF r.err = "nil" THEN "snapshot" ELSE "none"]
    /\ UNCHANGED <<callKind, callRaw, callCtxDone, jobVars, queryVars, fetchVars, credVars,
                   confVars>>

callGetSearchResults ==
    /\ callKind = "fetch"
    /\ answer = NoAnswer
    /\ LET r == GetSearchResults(callRaw, callCtxDone) IN
       answer' = [err |-> r.err, status |-> r.status, detail |-> r.detail,
                  value |-> IF r.decoded THEN "rows" ELSE "none"]
    /\ UNCHANGED <<callKind, callRaw, callCtxDone, jobVars, queryVars, fetchVars, credVars,
                   confVars>>

NextClient == callRunSearch \/ callGetSearchStatus \/ callGetSearchResults

----------------------------------------------------------------------------
\* The query text: a string is the sequence of its characters.

\* unicode.IsSpace, on the characters used here
IsSpace(c) == c \in {" ", "\t", "\n", "\r", "\f"}

RECURSIVE TrimLeft(_)
TrimLeft(str) ==
    IF str # <<>> /\ IsSpace(Head(str)) THEN TrimLeft(Tail(str)) ELSE str

RECURSIVE TrimRight(_)
TrimRight(str) ==
    IF str # <<>> /\ IsSpace(str[Len(str)])
    THEN TrimRight(SubSeq(str, 1, Len(str) - 1))
    ELSE str

\* strings.TrimSpace
TrimSpace(str) == TrimRight(TrimLeft(str))

\* strings.HasPrefix
HasPrefix(str, prefix) ==
    Len(str) >= Len(prefix) /\ SubSeq(str, 1, Len(prefix)) = prefix

\* "search"
SearchKeyword == <<"s", "e", "a", "r", "c", "h">>

\* "|"
Pipe == <<"|">>

\* "search "
SearchPrefix == SearchKeyword \o <<" ">>

\* A variant that looks for the prefixes in the untrimmed text.
runSearchQueryUntrimmed(q) ==
    IF ~HasPrefix(q, SearchKeyword) /\ ~HasPrefix(q, Pipe)
    THEN SearchPrefix \o q
    ELSE q

\* runSearch: if !HasPrefix(TrimSpace(query), "search") &&
\* !HasPrefix(TrimSpace(query), "|") { query = "search " + query }
runSearchQuery(q) ==
    IF ~HasPrefix(TrimSpace(q), SearchKeyword) /\ ~HasPrefix(TrimSpace(q), Pipe)
    THEN SearchPrefix \o q
    ELSE q

\* searchHandler: the same statement on the "query" argument of the tool call
searchHandlerQuery(q) ==
    IF ~HasPrefix(TrimSpace(q), SearchKeyword) /\ ~HasPrefix(TrimSpace(q), Pipe)
    THEN SearchPrefix \o q
    ELSE q

SubmittedQuery(f, q) == IF f = "cli" THEN runSearchQuery(q) ELSE searchHandlerQuery(q)

\* run, case "search": if len(args) < 2 { return usage }; a command-line
\* argument is always a string.
cliHasQuery(a) == a # "missing"

\* searchHandler: request.RequireString("query") succeeds for a present
\* argument of type string.
mcpRequireString(a) == a = "string"

ArgumentGiven(f, a) == IF f = "cli" THEN cliHasQuery(a) ELSE mcpRequireString(a)

ArgKinds(f) == IF f = "cli" THEN {"string", "missing"} ELSE {"string", "missing", "number"}

----------------------------------------------------------------------------
\* What the handlers return

\* isError: the caller is told of an error (the error line and exit status 1 of
\* the command line, the IsError flag of a tool result); goErr: the handler's
\* own error return value is not nil.
NoResult == [isError |-> FALSE, goErr |-> FALSE, msg |-> "none", cause |-> "none"]

\* Variants of the results: a fetch failure that is not returned, and a
\* missing query answered with the handler's error value.
cliErrorFetchIgnored(stage, err) ==
    [isError |-> stage # "fetch", goErr |-> stage # "fetch",
     msg |-> CASE stage = "submit" -> "failed to run search"
               [] stage = "status" -> "failed to get search status"
               [] stage = "fetch"  -> "nil",
     cause |-> IF stage = "fetch" THEN "none" ELSE err]

mcpMissingQueryAsFault ==
    [isError |-> TRUE, goErr |-> TRUE, msg |-> "Missing or invalid 'query' argument",
     cause |-> "none"]

\* runSearch: return fmt.Errorf("failed to ...: %w", err), surfaced by main as
\* "Error: ..." and exit status 1; return nil after the results are printed.
cliError(stage, err) ==
    [isError |-> TRUE, goErr |-> TRUE,
     msg |-> CASE stage = "submit" -> "failed to run search"
               [] stage = "status" -> "failed to get search status"
               [] stage = "fetch"  -> "failed to get search results",
     cause |-> err]

cliOk == [isError |-> FALSE, goErr |-> FALSE, msg |-> "nil", cause |-> "none"]

\* run: return fmt.Errorf("usage: splunk search <query> ...")
cliUsage ==
    [isError |-> TRUE, goErr |-> TRUE, msg |-> "usage: splunk search <query>",
     cause |-> "none"]

\* searchHandler: return mcp.NewToolResultError(...), nil
mcpError(stage, err) ==
    [isError |-> TRUE, goErr |-> FALSE,
     msg |-> CASE stage = "submit" -> "Failed to run search"
               [] stage = "status" -> "Failed to get search status"
               [] stage = "fetch"  -> "Failed to get search results",
     cause |-> err]

\* searchHandler, case <-timeout
mcpTimedOut ==
    [isError |-> TRUE, goErr |-> FALSE, msg |-> "Search timed out after 60 seconds",
     cause |-> "none"]

\* searchHandler: request.RequireString("query") failed
mcpMissingQuery ==
    [isError |-> TRUE, goErr |-> FALSE, msg |-> "Missing or invalid 'query' argument",
     cause |-> "none"]

\* searchHandler: return mcp.NewToolResultText(output.String()), nil
mcpOk == [isError |-> FALSE, goErr |-> FALSE, msg |-> "Search completed", cause |-> "none"]

ErrorResult(f, stage, err) ==
    IF f = "cli" THEN cliError(stage, err) ELSE mcpError(stage, err)

OkResult(f) == IF f = "cli" THEN cliOk ELSE mcpOk

ArgumentError(f) == IF f = "cli" THEN cliUsage ELSE mcpMissingQuery

\* main: if err := run(...); err != nil { Fprintf(os.Stderr, "Error: %v\n", err);
\* flag.Usage(); os.Exit(1) }
mainExit(res) ==
    IF res.goErr
    THEN [status |-> 1, stderr |-> <<"Error: ", res.msg, res.cause>>]
    ELSE [status |-> 0, stderr |-> <<>>]

\* The outcome a returned result stands for, by the return statement that made it.
Outcome(res) ==
    CASE res.msg = "none" -> "none"
      [] ~res.isError -> "Completed"
      [] res.msg \in {"usage: splunk search <query>", "Missing or invalid 'query' argument"}
           -> "ArgumentError"
      [] res.msg \in {"failed to run search", "Failed to run search"} -> "SubmitError"
      [] res.msg \in {"failed to get search status", "Failed to get search status"}
           -> "PollError"
      [] res.msg \in {"failed to get search results", "Failed to get search results"}
           -> "FetchError"
      [] res.msg = "Search timed out after 60 seconds" -> "TimedOut"

----------------------------------------------------------------------------
\* The control flow of the two handlers: where each goes after a call returns.
\* "status" and "fetch" are the next call, "sleep" is time.Sleep, "select" is the
\* select statement, "return" ends the handler with an error result.

\* Variants of the control flow, none of them the code's: the properties below
\* must tell each of them from it.
\*   a submit whose error is not looked at
cliAfterSubmitUnchecked(r) == "status"

\*   a first status call before the first tick
mcpAfterSubmitPollFirst(r) == IF r.err # "nil" THEN "return" ELSE "status"

\*   a loop without the break on done
cliAfterStatusNoBreak(st) == IF st.err # "nil" THEN "return" ELSE "sleep"

\*   a loop with the deadline of the tool call
cliAfterStatusDeadline(st) ==
    IF st.err # "nil" THEN "return"
    ELSE IF st.IsDone THEN "fetch"
    ELSE IF clock >= Deadline THEN "timeout"
    ELSE "sleep"

\*   a failed status call tried again at the next tick
mcpAfterStatusRetry(st) == IF st.err = "nil" /\ st.IsDone THEN "fetch" ELSE "select"

\*   a select without the timeout case
mcpNoTimeoutCase == FALSE

\*   a tick taken while the previous status call is still waiting
mcpTickerCaseWhileCalling == pc \in {"select", "status"} /\ tickReady

\* runSearch, after client.RunSearch: on error return, else enter the loop,
\* whose first statement is the status call.
cliAfterSubmit(r) == IF r.err # "nil" THEN "return" ELSE "status"

\* searchHandler, after client.RunSearch: on error return, else create the
\* timers and enter the select.
mcpAfterSubmit(r) == IF r.err # "nil" THEN "return" ELSE "select"

\* runSearch, after client.GetSearchStatus: on error return; when done break
\* to the results call; else sleep.
cliAfterStatus(st) ==
    IF st.err # "nil" THEN "return" ELSE IF st.IsDone THEN "fetch" ELSE "sleep"

\* searchHandler, after client.GetSearchStatus: on error return; when done
\* call for the results; else back to the select.
mcpAfterStatus(st) ==
    IF st.err # "nil" THEN "return" ELSE IF st.IsDone THEN "fetch" ELSE "select"

AfterSubmit(f, r) == IF f = "cli" THEN cliAfterSubmit(r) ELSE mcpAfterSubmit(r)

AfterStatus(f, st) == IF f = "cli" THEN cliAfterStatus(st) ELSE mcpAfterStatus(st)

\* searchHandler's select: the cases that can be taken. A select with several
\* ready cases takes any one of them.
mcpTimeoutCase == pc = "select" /\ timeoutReady

mcpTickerCase == pc = "select" /\ tickReady

\* runSearch: time.Sleep has returned.
cliSleepOver == pc = "sleep" /\ sleepLeft = 0

----------------------------------------------------------------------------
\* Steps

Calls == {"submit", "status", "fetch"}

AppendCall(l, k) ==
    IF k = "status" /\ Len(l) > 0 /\ l[Len(l)] = "status" THEN l ELSE Append(l, k)

\* The handler moves on to nxt: a call (the request reaches the wire unless
\* ctx is already cancelled: then the call fails without one), a wait, or a
\* return with result res. wire: the requests left on the wire; s: the job
\* identifier; t: the clock.
Move(nxt, wire, s, t, res) ==
    /\ pc' = IF nxt \in {"return", "timeout"} THEN "returned" ELSE nxt
    /\ age' = 0
    /\ polls' = IF nxt = "status" THEN Min(polls + 1, MaxRuns + 1) ELSE polls
    /\ inflight' =
         IF nxt \in Calls /\ ~cancelled
         THEN wire \cup {[kind |-> nxt, sid |-> s,
                          n |-> IF nxt = "status" THEN polls' ELSE 0]}
         ELSE wire
    /\ nSubmit' = IF nxt = "submit" THEN nSubmit + 1 ELSE nSubmit
    /\ nFetch' = IF nxt = "fetch" THEN nFetch + 1 ELSE nFetch
    /\ log' = IF nxt \in Calls THEN AppendCall(log, nxt) ELSE log
    /\ sleepLeft' = IF nxt = "sleep" THEN SleepInterval ELSE 0
    /\ firstPollAt' = IF nxt = "status" /\ firstPollAt = -1 THEN t ELSE firstPollAt
    /\ result' = CASE nxt = "return"  -> res
                   [] nxt = "timeout" -> mcpTimedOut
                   [] OTHER           -> result
    /\ lateStatus' = (lateStatus \/ (nxt = "status" /\ (doneSeen \/ statusFailed)))
    /\ callsAfterCancel' =
         IF nxt \in Calls /\ cancelled THEN callsAfterCancel \cup {nxt}
         ELSE callsAfterCancel

\* The request a blocked call waits for: the one on the wire, or none when ctx
\* was cancelled before the call.
Awaited(kind) ==
    LET onWire == {q \in inflight : q.kind = kind} IN
    IF onWire = {} THEN {[kind |-> kind, sid |-> "", n |-> 0]} ELSE onWire

\* run (case "search") and runSearch, or searchHandler, up to the RunSearch
\* call: the query argument is checked for presence, the query is given its
\* keyword and handed to the client.
Start ==
    /\ pc = "start"
    /\ IF ArgumentGiven(fe, queryArg)
       THEN /\ Move("submit", inflight, "", clock, result)
            /\ submitted' = Append(submitted, SubmittedQuery(fe, query))
            /\ by' = Append(by, fe)
       ELSE /\ Move("return", inflight, "", clock, ArgumentError(fe))
            /\ UNCHANGED <<submitted, by>>
    /\ ending' = IF ArgumentGiven(fe, queryArg) THEN ending
                 ELSE [stage |-> "argument", kind |-> queryArg]
    /\ UNCHANGED <<fe, round, prev, remote, clock, tickReady, timeoutReady, cancelled,
                   sid, submitOk, doneSeen, statusFailed, expiredUndone, cancelPc,
                   httpTimedOut, queryArg, query>>
    /\ UNCHANGED <<fetchVars, credVars, clientVars, confVars>>

\* client.RunSearch returns; the handler runs on to its next blocking point.
\* In searchHandler that creates the two timers.
RespondSubmit ==
    /\ pc = "submit"
    /\ \E q \in Awaited("submit") :
         LET r == RunSearch(Transport(remote.submit, age), cancelled) IN
         /\ submitOk' = (r.err = "nil")
         /\ httpTimedOut' = (httpTimedOut \/ (~cancelled /\ age >= HttpTimeout))
         /\ sid' = r.sid
         /\ clock' = 0
         /\ Move(AfterSubmit(fe, r), inflight \ {q}, r.sid, 0,
                 ErrorResult(fe, "submit", r.err))
         /\ ending' = IF Fate(remote.submit, age, cancelled) # "ok" \/ pc' = "returned"
                      THEN [stage |-> "submit", kind |-> Fate(remote.submit, age, cancelled)]
                      ELSE ending
    /\ UNCHANGED <<fe, round, prev, remote, tickReady, timeoutReady, cancelled,
                   doneSeen, statusFailed, expiredUndone, cancelPc>>
    /\ UNCHANGED queryVars
    /\ UNCHANGED <<fetchVars, credVars, clientVars, confVars>>

\* client.GetSearchStatus returns; the handler runs on.
RespondStatus ==
    /\ pc = "status"
    /\ \E q \in Awaited("status") :
         LET st == GetSearchStatus(Transport(StatusAnswer(q.n), age), cancelled) IN
         /\ statusFailed' = (statusFailed \/ st.err # "nil")
         /\ httpTimedOut' = (httpTimedOut \/ (~cancelled /\ age >= HttpTimeout))
         /\ doneSeen' = (doneSeen \/ (st.err = "nil" /\ st.IsDone))
         /\ Move(AfterStatus(fe, st), inflight \ {q}, sid, clock,
                 ErrorResult(fe, "status", st.err))
         /\ ending' =
              IF Fate(StatusAnswer(q.n), age, cancelled) # "ok" \/ pc' = "returned"
              THEN [stage |-> "status", kind |-> Fate(StatusAnswer(q.n), age, cancelled)]
              ELSE ending
    /\ UNCHANGED <<fe, round, prev, remote, clock, tickReady, timeoutReady, cancelled,
                   sid, submitOk, expiredUndone, cancelPc>>
    /\ UNCHANGED queryVars
    /\ UNCHANGED <<fetchVars, credVars, clientVars, confVars>>

\* client.GetSearchResults returns; the handler renders the rows and returns.
RespondFetch ==
    /\ pc = "fetch"
    /\ \E q \in Awaited("fetch") :
         LET rs == GetSearchResults(Transport(remote.fetch, age), cancelled) IN
         /\ httpTimedOut' = (httpTimedOut \/ (~cancelled /\ age >= HttpTimeout))
         /\ Move("return", inflight \ {q}, sid, clock,
              IF rs.err # "nil" THEN ErrorResult(fe, "fetch", rs.err) ELSE OkResult(fe))
         /\ ending' = [stage |-> "fetch", kind |-> Fate(remote.fetch, age, cancelled)]
    /\ UNCHANGED <<fe, round, prev, remote, clock, tickReady, timeoutReady, cancelled,
                   sid, submitOk, doneSeen, statusFailed, expiredUndone, cancelPc>>
    /\ UNCHANGED queryVars
    /\ UNCHANGED <<fetchVars, credVars, clientVars, confVars>>

\* runSearch: time.Sleep is over, the loop starts again with the status call.
WakeAndPoll ==
    /\ fe = "cli"
    /\ cliSleepOver
    /\ Move("status", inflight, sid, clock, result)
    /\ UNCHANGED <<fe, round, prev, remote, clock, tickReady, timeoutReady, cancelled,
                   sid, submitOk, doneSeen, statusFailed, expiredUndone, cancelPc,
                   httpTimedOut>>
    /\ UNCHANGED queryVars
    /\ UNCHANGED <<fetchVars, credVars, clientVars, confVars>>
    /\ UNCHANGED ending

\* searchHandler: case <-ticker.C
SelectTick ==
    /\ fe = "mcp"
    /\ mcpTickerCase
    /\ tickReady' = FALSE
    /\ Move("status", inflight, sid, clock, result)
    /\ UNCHANGED <<fe, round, prev, remote, clock, timeoutReady, cancelled,
                   sid, submitOk, doneSeen, statusFailed, expiredUndone, cancelPc,
                   httpTimedOut>>
    /\ UNCHANGED queryVars
    /\ UNCHANGED <<fetchVars, credVars, clientVars, confVars>>
    /\ UNCHANGED ending

\* searchHandler: case <-timeout
SelectTimeout ==
    /\ fe = "mcp"
    /\ mcpTimeoutCase
    /\ Move("timeout", inflight, sid, clock, result)
    /\ ending' = [stage |-> "deadline", kind |-> "elapsed"]
    /\ UNCHANGED <<fe, round, prev, remote, clock, tickReady, timeoutReady, cancelled,
                   sid, submitOk, doneSeen, statusFailed, expiredUndone, cancelPc,
                   httpTimedOut>>
    /\ UNCHANGED queryVars
    /\ UNCHANGED <<fetchVars, credVars, clientVars, confVars>>

\* The handler cannot take a step of its own: it waits for an answer (no
\* longer than the client's Timeout, and not once ctx is cancelled), for the
\* end of its sleep, or in a select none of whose channels is ready.
Blocked ==
    \/ pc \in Calls /\ inflight # {} /\ age < HttpTimeout /\ ~cancelled
    \/ pc = "sleep" /\ sleepLeft > 0
    \/ pc = "select" /\ ~tickReady /\ ~timeoutReady

\* searchHandler has created its timers (after RunSearch returned) and can
\* still come back to its select.
mcpTimersRunning == fe = "mcp" /\ pc \in {"select", "status"}

NextClock(c) == IF c + Step > MaxClock THEN c ELSE c + Step

\* Step time units pass while the handler is blocked. The timers of
\* searchHandler fire into their channels: the ticker every TickInterval, the
\* timeout at Deadline. The timeout was created first, so at Deadline it fires
\* before the tick of the same instant: a handler parked in the select is
\* woken by the timeout.
Advance ==
    /\ Blocked
    /\ clock' = IF pc \in {"submit", "fetch"} THEN clock ELSE NextClock(clock)
    /\ age' = IF pc \in Calls THEN age + Step ELSE age
    /\ sleepLeft' = IF pc = "sleep" THEN sleepLeft - Step ELSE sleepLeft
    /\ timeoutReady' = (timeoutReady \/ (mcpTimersRunning /\ clock' >= Deadline))
    /\ tickReady' =
         (tickReady \/ (/\ mcpTimersRunning
                        /\ clock' % TickInterval = 0
                        /\ ~(pc = "select" /\ clock' >= Deadline)))
    /\ expiredUndone' =
         (expiredUndone \/ (mcpTimersRunning /\ clock' >= Deadline /\ ~doneSeen))
    /\ UNCHANGED <<fe, round, prev, remote, pc, inflight, cancelled, polls, sid, result,
                   nSubmit, nFetch, log, submitOk, doneSeen, statusFailed, lateStatus,
                   cancelPc, callsAfterCancel, firstPollAt, httpTimedOut>>
    /\ UNCHANGED queryVars
    /\ UNCHANGED <<fetchVars, credVars, clientVars, confVars>>
    /\ UNCHANGED ending

\* ctx is cancelled: SIGINT or SIGTERM for the command line (main's
\* signal.NotifyContext), the tool call's context for searchHandler.
Cancel ==
    /\ ~cancelled
    /\ pc # "returned"
    /\ cancelled' = TRUE
    /\ cancelPc' = pc
    /\ UNCHANGED <<fe, round, prev, remote, pc, inflight, clock, age, sleepLeft,
                   tickReady, timeoutReady, polls, sid, result, nSubmit, nFetch, log, submitOk,
                   doneSeen, statusFailed, lateStatus, expiredUndone, callsAfterCancel,
                   firstPollAt, httpTimedOut>>
    /\ UNCHANGED queryVars
    /\ UNCHANGED <<fetchVars, credVars, clientVars, confVars>>
    /\ UNCHANGED ending

----------------------------------------------------------------------------
\* Invocations

NoPrev == [fe |-> "none"]

\* The invocation got every answer of the remote service: it was not
\* cancelled, no call ran into the client's Timeout, and its deadline did not
\* elapse.
Undisturbed == ~cancelled /\ ~httpTimedOut /\ ~(fe = "mcp" /\ clock >= Deadline)

\* What is kept of the first invocation: its calls and its outcome.
Summary ==
    [fe |-> fe, outcome |-> Outcome(result), cause |-> result.cause, log |-> log,
     polls |-> polls, firstPollAt |-> firstPollAt]

Fresh ==
    /\ pc = "start"
    /\ inflight = {}
    /\ clock = 0
    /\ age = 0
    /\ sleepLeft = 0
    /\ tickReady = FALSE
    /\ timeoutReady = FALSE
    /\ cancelled = FALSE
    /\ polls = 0
    /\ sid = ""
    /\ result = NoResult
    /\ nSubmit = 0
    /\ nFetch = 0
    /\ log = <<>>
    /\ submitOk = FALSE
    /\ doneSeen = FALSE
    /\ statusFailed = FALSE
    /\ lateStatus = FALSE
    /\ expiredUndone = FALSE
    /\ cancelPc = "none"
    /\ callsAfterCancel = {}
    /\ firstPollAt = -1
    /\ httpTimedOut = FALSE
    /\ ending = NoEnding

\* Host and token: internal/config, executeCommand and runMCPServer

Hosts == {"", "h1", "h2"}

\* The config file cannot be read or parsed.
NoFile == [ok |-> FALSE, host |-> ""]

\* The keyring has no entry for the host.
NoEntry == [ok |-> FALSE, token |-> ""]

NoClient == [made |-> FALSE, host |-> "", token |-> ""]

\* config.LoadConfig: the host of the config file, or an error
LoadConfig(file) == [err |-> ~file.ok, host |-> IF file.ok THEN file.host ELSE ""]

\* config.LoadToken: keyring.Get(serviceName, host)
LoadToken(kr, h) == [err |-> ~kr[h].ok, token |-> IF kr[h].ok THEN kr[h].token ELSE ""]

\* splunk.NewClient
NewClient(h, t) == [made |-> TRUE, host |-> h, token |-> t]

\* A variant that makes the client before it looks at the values.
executeCommandUnchecked(file, kr, eh, et) ==
    LET lc == LoadConfig(file)
        h  == IF lc.err THEN eh ELSE lc.host
        t  == IF et # "" THEN et ELSE LoadToken(kr, h).token
    IN  [err |-> "nil", client |-> NewClient(h, t), read |-> {"file", "envToken"}]

\* A variant that asks the environment for the host before the config file.
executeCommandEnvFirst(file, kr, eh, et) ==
    LET lc == LoadConfig(file)
        h  == IF eh # "" THEN eh ELSE lc.host
        lt == LoadToken(kr, h)
        t  == IF et # "" THEN et ELSE lt.token
        rd == {"envHost", "envToken"} \cup (IF eh = "" THEN {"file"} ELSE {})
                  \cup (IF et = "" THEN {"keyring"} ELSE {})
    IN  IF et = "" /\ lt.err THEN [err |-> "keyring", client |-> NoClient, read |-> rd]
        ELSE IF h = "" THEN [err |-> "host is required", client |-> NoClient, read |-> rd]
        ELSE IF t = "" THEN [err |-> "token is required", client |-> NoClient, read |-> rd]
        ELSE [err |-> "nil", client |-> NewClient(h, t), read |-> rd]

\* executeCommand up to splunk.NewClient; the package variables host and
\* token are empty when it is called. SPLUNK_HOST is read only when
\* config.LoadConfig fails, the keyring only when SPLUNK_TOKEN is empty.
executeCommand(file, kr, eh, et) ==
    LET lc == LoadConfig(file)
        h  == IF lc.err THEN eh ELSE lc.host
        lt == LoadToken(kr, h)
        t  == IF et # "" THEN et ELSE lt.token
        rd == {"file", "envToken"} \cup (IF lc.err THEN {"envHost"} ELSE {})
                  \cup (IF et = "" THEN {"keyring"} ELSE {})
    IN  IF et = "" /\ lt.err THEN [err |-> "keyring", client |-> NoClient, read |-> rd]
        ELSE IF h = "" THEN [err |-> "host is required", client |-> NoClient, read |-> rd]
        ELSE IF t = "" THEN [err |-> "token is required", client |-> NoClient, read |-> rd]
        ELSE [err |-> "nil", client |-> NewClient(h, t), read |-> rd]

\* runMCPServer up to splunk.NewClient
runMCPServer(file, kr, eh, et) ==
    LET lc == LoadConfig(file)
        lt == LoadToken(kr, lc.host)
        rd == IF lc.err THEN {"file"} ELSE {"file", "keyring"}
    IN  IF lc.err
        THEN [err |-> "Splunk host must be configured", client |-> NoClient, read |-> rd]
        ELSE IF lt.err
        THEN [err |-> "Splunk token must be set", client |-> NoClient, read |-> rd]
        ELSE IF lc.host = ""
        THEN [err |-> "Splunk host must be configured", client |-> NoClient, read |-> rd]
        ELSE IF lt.token = ""
        THEN [err |-> "Splunk token must be set", client |-> NoClient, read |-> rd]
        ELSE [err |-> "nil", client |-> NewClient(lc.host, lt.token), read |-> rd]

\* The entry point runs up to its first request, or returns its error:
\* executeCommand ends with `return fn(ctx)`, the one call of fn.
LoadCredentials ==
    /\ cpc = "start"
    /\ LET r == IF entry = "cli" THEN executeCommand(cfgFile, keyring, envHost, envToken)
                ELSE runMCPServer(cfgFile, keyring, envHost, envToken)
       IN  /\ cpc' = IF r.err = "nil" THEN "ready" ELSE "failed"
           /\ api' = r.client
           /\ credErr' = r.err
           /\ consulted' = r.read
           /\ fnRuns' = IF entry = "cli" /\ r.err = "nil" THEN fnRuns + 1 ELSE fnRuns
    /\ UNCHANGED <<entry, cfgFile, keyring, envHost, envToken, sent, nSent, stored>>
    /\ UNCHANGED <<jobVars, queryVars, fetchVars, clientVars, confVars>>

\* Client.doRequest: the request goes to c.BaseURL with "Bearer " + c.Token.
SendRequest ==
    /\ cpc = "ready"
    /\ nSent < MaxRequests
    /\ nSent' = nSent + 1
    /\ sent' = sent \cup {[host |-> api.host, token |-> api.token]}
    /\ UNCHANGED <<entry, cfgFile, keyring, envHost, envToken, cpc, api, credErr, stored,
                   fnRuns, consulted>>
    /\ UNCHANGED <<jobVars, queryVars, fetchVars, clientVars, confVars>>

\* Meanwhile `splunk configure h2` is run elsewhere with the token "te":
\* config.SaveConfig and config.SaveToken.
ConfigureElsewhere ==
    /\ cpc = "ready"
    /\ ~stored
    /\ stored' = TRUE
    /\ cfgFile' = [ok |-> TRUE, host |-> "h2"]
    /\ keyring' = [keyring EXCEPT !["h2"] = [ok |-> TRUE, token |-> "te"]]
    /\ UNCHANGED <<entry, envHost, envToken, cpc, api, credErr, sent, nSent, fnRuns,
                   consulted>>
    /\ UNCHANGED <<jobVars, queryVars, fetchVars, clientVars, confVars>>

\* `splunk configure <host>`

\* The config file cannot be parsed: its writing was cut short.
Truncated == [ok |-> FALSE, host |-> ""]

\* config.SaveConfig: MkdirAll, MarshalIndent, os.WriteFile. os.WriteFile
\* opens the file with O_TRUNC and then writes: a failure of the write leaves
\* a file without its content.
SaveConfig(h, ends, file) ==
    CASE ends = "ok"    -> [err |-> "nil", file |-> [ok |-> TRUE, host |-> h]]
      [] ends = "mkdir" -> [err |-> "failed to create config directory", file |-> file]
      [] ends = "open"  -> [err |-> "failed to write config file", file |-> file]
      [] OTHER          -> [err |-> "failed to write config file", file |-> Truncated]

\* config.SaveToken: keyring.Set(serviceName, host, token)
SaveToken(h, t, ends, kr) ==
    IF ends = "ok"
    THEN [err |-> "nil", kr |-> [kr EXCEPT ![h] = [ok |-> TRUE, token |-> t]]]
    ELSE [err |-> "keyring", kr |-> kr]

\* configure: the host is checked, the token read and checked, the host saved
\* and then the token.
configure(h, tin, cfgEnds, tokEnds, file, kr) ==
    LET sc == SaveConfig(h, cfgEnds, file)
        st == SaveToken(h, tin.token, tokEnds, kr)
    IN  IF h = "" THEN [err |-> "host is required", file |-> file, kr |-> kr]
        ELSE IF tin.err THEN [err |-> "failed to read token", file |-> file, kr |-> kr]
        ELSE IF tin.token = ""
        THEN [err |-> "token cannot be empty", file |-> file, kr |-> kr]
        ELSE IF sc.err # "nil" THEN [err |-> sc.err, file |-> sc.file, kr |-> kr]
        ELSE IF st.err # "nil" THEN [err |-> st.err, file |-> sc.file, kr |-> kr]
        ELSE [err |-> "nil", file |-> sc.file, kr |-> st.kr]

\* run, case "configure": configure(args[1]) runs to its return.
RunConfigure ==
    /\ confPc = "start"
    /\ LET r == configure(hostArg, tokenIn, saveConfigEnds, saveTokenEnds, cfgFile, keyring)
       IN  /\ cfgFile' = r.file
           /\ keyring' = r.kr
           /\ confErr' = r.err
    /\ confPc' = "returned"
    /\ UNCHANGED <<hostArg, tokenIn, saveConfigEnds, saveTokenEnds, before>>
    /\ UNCHANGED <<entry, envHost, envToken, cpc, api, credErr, sent, nSent, stored,
                   fnRuns, consulted>>
    /\ UNCHANGED <<jobVars, queryVars, fetchVars, clientVars>>

NoSnapshot == [file |-> NoFile, kr |-> [h \in Hosts |-> NoEntry]]

\* configure is not run.
NoConfigure ==
    /\ hostArg = ""
    /\ tokenIn = [err |-> FALSE, token |-> ""]
    /\ saveConfigEnds = "ok"
    /\ saveTokenEnds = "ok"
    /\ before = NoSnapshot
    /\ confPc = "none"
    /\ confErr = "nil"

\* The searches above run with a host and a token.
Configured ==
    /\ entry = "cli"
    /\ cfgFile = [ok |-> TRUE, host |-> "h1"]
    /\ keyring = [h \in Hosts |-> IF h = "h1" THEN [ok |-> TRUE, token |-> "tk"] ELSE NoEntry]
    /\ envHost = ""
    /\ envToken = ""
    /\ cpc = "ready"
    /\ api = NewClient("h1", "tk")
    /\ credErr = "nil"
    /\ sent = {}
    /\ nSent = 0
    /\ stored = FALSE
    /\ fnRuns = 1
    /\ consulted = {"file", "envToken", "keyring"}

\* The results request

NoFetch == [path |-> "none", hasCount |-> FALSE, count |-> 0]

NotGiven == [given |-> FALSE, value |-> 0]

\* request.GetInt(key, defaultValue)
GetInt(arg, defaultValue) == IF arg.given THEN arg.value ELSE defaultValue

\* Client.GetSearchResults: path := ".../results?output_mode=json";
\* if count > 0 { path += "&count=%d" }
ResultsRequest(count) ==
    [path |-> "/results", hasCount |-> count > 0, count |-> IF count > 0 THEN count ELSE 0]

\* A variant that asks for as many rows as the done snapshot reports.
mcpMaxCountFromSnapshot(arg, rc) == rc

\* runSearch: client.GetSearchResults(ctx, sid, 100)
cliMaxCountOf(arg, rc) == cliMaxCount

\* searchHandler: client.GetSearchResults(ctx, sid, maxResults)
mcpMaxCountOf(arg, rc) == GetInt(arg, DefaultMaxResults)

\* The orchestration does not depend on the row cap: it is left out there.
NoFetchInput ==
    /\ maxResultsArg = NotGiven
    /\ resultCount = 0
    /\ fetchReq = NoFetch

MaxResultsValues == (-1..MaxCount) \cup {DefaultMaxResults, DefaultMaxResults + 1}

\* runSearch, from the done snapshot to the results request.
cliFetchResults ==
    /\ fe = "cli"
    /\ fetchReq = NoFetch
    /\ fetchReq' = ResultsRequest(cliMaxCountOf(maxResultsArg, resultCount))
    /\ UNCHANGED <<maxResultsArg, resultCount, jobVars, queryVars, credVars, clientVars, confVars>>

\* searchHandler, from the done snapshot to the results request.
mcpFetchResults ==
    /\ fe = "mcp"
    /\ fetchReq = NoFetch
    /\ fetchReq' = ResultsRequest(mcpMaxCountOf(maxResultsArg, resultCount))
    /\ UNCHANGED <<maxResultsArg, resultCount, jobVars, queryVars, credVars, clientVars, confVars>>

\* A command line has no max_results argument.
InitFetch ==
    /\ fe \in FrontEnds
    /\ maxResultsArg \in
         IF fe = "cli" THEN {NotGiven}
         ELSE {NotGiven} \cup [given : {TRUE}, value : MaxResultsValues]
    /\ resultCount \in 0..MaxRows
    /\ fetchReq = NoFetch
    /\ round = 1
    /\ prev = NoPrev
    /\ remote = [submit |-> "ok", runs |-> 0, final |-> "done", fetch |-> "ok"]
    /\ Fresh
    /\ queryArg = "string"
    /\ query = <<"x">>
    /\ submitted = <<>>
    /\ by = <<>>
    /\ Configured
    /\ NoCall
    /\ NoConfigure

NextFetch == cliFetchResults \/ mcpFetchResults

SpecFetch == InitFetch /\ [][NextFetch]_vars

\* The script of a search that is done at its first poll.
DoneAtOnce == [submit |-> "ok", runs |-> 0, final |-> "done", fetch |-> "ok"]

\* The orchestration does not depend on the query text: one query is tried
\* against every script, an empty and a blank one against DoneAtOnce, and so
\* is an invocation without a query string.
Init ==
    /\ fe \in FrontEnds
    /\ round = 1
    /\ prev = NoPrev
    /\ queryArg \in ArgKinds(fe)
    /\ \/ queryArg = "string" /\ query = <<"x">> /\ remote \in Scripts
       \/ queryArg = "string" /\ query \in {<<>>, <<" ">>} /\ remote = DoneAtOnce
       \/ queryArg # "string" /\ query = <<>> /\ remote = DoneAtOnce
    /\ Fresh
    /\ submitted = <<>>
    /\ by = <<>>
    /\ NoFetchInput
    /\ Configured
    /\ NoCall
    /\ NoConfigure

\* After an undisturbed command-line search the same search is run again as
\* a tool call.
NextInvocation ==
    /\ pc = "returned"
    /\ round = 1
    /\ fe = "cli"
    /\ Undisturbed
    /\ round' = 2
    /\ prev' = Summary
    /\ fe' = "mcp"
    /\ remote' = remote
    /\ pc' = "start"
    /\ inflight' = {}
    /\ clock' = 0
    /\ age' = 0
    /\ sleepLeft' = 0
    /\ tickReady' = FALSE
    /\ timeoutReady' = FALSE
    /\ cancelled' = FALSE
    /\ polls' = 0
    /\ sid' = ""
    /\ result' = NoResult
    /\ nSubmit' = 0
    /\ nFetch' = 0
    /\ log' = <<>>
    /\ submitOk' = FALSE
    /\ doneSeen' = FALSE
    /\ statusFailed' = FALSE
    /\ lateStatus' = FALSE
    /\ expiredUndone' = FALSE
    /\ cancelPc' = "none"
    /\ callsAfterCancel' = {}
    /\ firstPollAt' = -1
    /\ httpTimedOut' = FALSE
    /\ UNCHANGED queryVars
    /\ UNCHANGED <<fetchVars, credVars, clientVars, confVars>>
    /\ ending' = NoEnding

Next ==
    \/ Start
    \/ RespondSubmit
    \/ RespondStatus
    \/ RespondFetch
    \/ WakeAndPoll
    \/ SelectTick
    \/ SelectTimeout
    \/ Advance
    \/ Cancel
    \/ NextInvocation

Spec == Init /\ [][Next]_vars

----------------------------------------------------------------------------
\* The query a front end submits, for the query arguments in Queries; the text
\* it submitted can be given as the query argument of one more search.

Leads == {<<>>, <<" ">>, <<"\t", " ">>}

Heads == {<<>>, SearchKeyword, Pipe, <<"S", "e", "a", "r", "c", "h">>,
          <<"s", "e", "a", "r">>, <<"x">>}

TailChars == {" ", "a", "|"}

Tails == UNION {[1..k -> TailChars] : k \in 0..MaxTail}

Queries == {l \o h \o t : l \in Leads, h \in Heads, t \in Tails}

\* The query argument of the next search: the one given, then what was
\* submitted last.
Argument == IF submitted = <<>> THEN query ELSE submitted[Len(submitted)]

\* A search from the command line, up to the RunSearch call.
cliSubmitQuery ==
    /\ Len(submitted) < 2
    /\ submitted' = Append(submitted, runSearchQuery(Argument))
    /\ by' = Append(by, "cli")
    /\ UNCHANGED <<queryArg, query, jobVars, fetchVars, credVars, clientVars, confVars>>

\* A search tool call, up to the RunSearch call.
mcpSubmitQuery ==
    /\ Len(submitted) < 2
    /\ submitted' = Append(submitted, searchHandlerQuery(Argument))
    /\ by' = Append(by, "mcp")
    /\ UNCHANGED <<queryArg, query, jobVars, fetchVars, credVars, clientVars, confVars>>

InitNorm ==
    /\ queryArg = "string"
    /\ query \in Queries
    /\ submitted = <<>>
    /\ by = <<>>
    /\ fe = "cli"
    /\ round = 1
    /\ prev = NoPrev
    /\ remote = DoneAtOnce
    /\ Fresh
    /\ NoFetchInput
    /\ Configured
    /\ NoCall
    /\ NoConfigure

NextNorm == cliSubmitQuery \/ mcpSubmitQuery

SpecNorm == InitNorm /\ [][NextNorm]_vars

InitCreds ==
    /\ entry \in FrontEnds
    /\ cfgFile \in {NoFile, [ok |-> TRUE, host |-> ""], [ok |-> TRUE, host |-> "h1"]}
    /\ keyring \in [Hosts -> {NoEntry, [ok |-> TRUE, token |-> ""], [ok |-> TRUE, token |-> "tk"]}]
    /\ envHost \in {"", "h2"}
    /\ envToken \in {"", "te"}
    /\ cpc = "start"
    /\ api = NoClient
    /\ credErr = "nil"
    /\ sent = {}
    /\ nSent = 0
    /\ stored = FALSE
    /\ fnRuns = 0
    /\ consulted = {}
    /\ fe = "cli"
    /\ round = 1
    /\ prev = NoPrev
    /\ remote = DoneAtOnce
    /\ Fresh
    /\ queryArg = "string"
    /\ query = <<"x">>
    /\ submitted = <<>>
    /\ by = <<>>
    /\ NoFetchInput
    /\ NoCall
    /\ NoConfigure

NextCreds == LoadCredentials \/ SendRequest \/ ConfigureElsewhere

SpecCreds == InitCreds /\ [][NextCreds]_vars

\* `splunk configure` on a machine that was configured before, for h1, or never.
InitConfigure ==
    /\ hostArg \in Hosts
    /\ tokenIn \in {[err |-> TRUE, token |-> ""], [err |-> FALSE, token |-> ""],
                    [err |-> FALSE, token |-> "tk"], [err |-> FALSE, token |-> "t2"]}
    /\ saveConfigEnds \in {"ok", "mkdir", "open", "write"}
    /\ saveTokenEnds \in {"ok", "fail"}
    /\ cfgFile \in {NoFile, [ok |-> TRUE, host |-> "h1"]}
    /\ keyring \in {[h \in Hosts |-> NoEntry],
                    [h \in Hosts |-> IF h = "h1" THEN [ok |-> TRUE, token |-> "tk"]
                                     ELSE NoEntry]}
    /\ before = [file |-> cfgFile, kr |-> keyring]
    /\ confPc = "start"
    /\ confErr = "nil"
    /\ entry = "cli"
    /\ envHost = ""
    /\ envToken = ""
    /\ cpc = "start"
    /\ api = NoClient
    /\ credErr = "nil"
    /\ sent = {}
    /\ nSent = 0
    /\ stored = FALSE
    /\ fnRuns = 0
    /\ consulted = {}
    /\ fe = "cli"
    /\ round = 1
    /\ prev = NoPrev
    /\ remote = DoneAtOnce
    /\ Fresh
    /\ queryArg = "string"
    /\ query = <<"x">>
    /\ submitted = <<>>
    /\ by = <<>>
    /\ NoFetchInput
    /\ NoCall

NextConfigure == RunConfigure

SpecConfigure == InitConfigure /\ [][NextConfigure]_vars

InitClient ==
    /\ callKind \in {"submit", "status", "fetch"}
    /\ callRaw \in Responses
    /\ callCtxDone \in BOOLEAN
    /\ answer = NoAnswer
    /\ fe = "cli"
    /\ round = 1
    /\ prev = NoPrev
    /\ remote = DoneAtOnce
    /\ Fresh
    /\ queryArg = "string"
    /\ query = <<"x">>
    /\ submitted = <<>>
    /\ by = <<>>
    /\ NoFetchInput
    /\ Configured
    /\ NoConfigure

SpecClient == InitClient /\ [][NextClient]_vars

\* The tool-call path alone, with what the scheduling guarantees: time passes;
\* every call returns (with an answer, or with the client's Timeout); a handler
\* that can run does; and the select, which takes a ready case at random, does
\* not pass over the timeout case for ever.
InitMcp == Init /\ fe = "mcp"

NextMcp ==
    \/ Start
    \/ RespondSubmit
    \/ RespondStatus
    \/ RespondFetch
    \/ SelectTick
    \/ SelectTimeout
    \/ Advance
    \/ Cancel

FairSpec ==
    /\ InitMcp
    /\ [][NextMcp]_vars
    /\ WF_vars(Advance)
    /\ WF_vars(RespondSubmit)
    /\ WF_vars(RespondStatus)
    /\ WF_vars(RespondFetch)
    /\ WF_vars(SelectTick)
    /\ SF_vars(SelectTimeout)

----------------------------------------------------------------------------
\* Claims

StatusOnWire == {q \in inflight : q.kind = "status"}

\* C1: in both front ends, once a status snapshot with the done flag set has
\* been received, no further status call is made and exactly one results call
\* is made (it is made in the step that receives the snapshot).
C1_DoneThenOneFetch ==
    doneSeen => /\ ~lateStatus
                /\ nFetch = 1
                /\ pc \in {"fetch", "returned"}
                /\ StatusOnWire = {}

\* Both front ends have completed a search whose job was running twice before
\* it was done.
C1_Witness ==
    /\ round = 2
    /\ prev.outcome = "Completed"
    /\ pc = "returned"
    /\ doneSeen
    /\ polls = 3
    /\ nFetch = 1

\* C2 (as claimed): in searchHandler, when the deadline elapses before any
\* done snapshot was received (and no status call has failed), no results call
\* is ever made and the handler returns TimedOut.
C2_DeadlineMeansTimedOut ==
    (fe = "mcp" /\ expiredUndone /\ ~statusFailed)
        => /\ nFetch = 0
           /\ pc = "returned" => Outcome(result) = "TimedOut"

\* C3 (as claimed): when ctx is cancelled between two ticks (during the sleep
\* or in the select), the handler returns a Cancelled outcome.
C3_CancelMeansCancelled ==
    (cancelPc \in {"sleep", "select"} /\ pc = "returned")
        => Outcome(result) = "Cancelled"

\* C4: at most one status request is outstanding, the handler is blocked in
\* the call while it is, nothing is outstanding once the handler has returned,
\* and no status call follows a done snapshot or a failed status call.
C4_SequentialStatus ==
    /\ Cardinality(inflight) <= 1
    /\ StatusOnWire # {} => pc = "status"
    /\ pc = "returned" => inflight = {}
    /\ ~lateStatus

\* A tick arrived while the second status request of searchHandler was
\* outstanding.
C4_Witness ==
    /\ fe = "mcp"
    /\ pc = "status"
    /\ Cardinality(StatusOnWire) = 1
    /\ polls = 2
    /\ tickReady

\* C5: in both front ends a failed status call ends the handler at once with
\* the status error: no retry, no further status call, no results call.
C5_StatusFailureIsFinal ==
    statusFailed => /\ pc = "returned"
                    /\ Outcome(result) = "PollError"
                    /\ result.isError
                    /\ result.cause # "nil"
                    /\ nFetch = 0
                    /\ ~lateStatus
                    /\ inflight = {}

\* The second status request was rejected by the remote service; both front
\* ends ended with the status error.
C5_Witness ==
    /\ round = 2
    /\ prev.outcome = "PollError"
    /\ pc = "returned"
    /\ statusFailed
    /\ polls = 2
    /\ result.cause = "API request failed with status"

IsPrefix(a, b) == Len(a) <= Len(b) /\ SubSeq(b, 1, Len(a)) = a

\* C6: per invocation with a query exactly one submit call is made, first;
\* status calls are made only after it succeeded; the results call only after
\* a done snapshot; after a failed submit the handler has returned the submit
\* error and made no other call.
C6_SubmitPollFetchOrder ==
    /\ nSubmit = IF pc = "start" \/ ~ArgumentGiven(fe, queryArg) THEN 0 ELSE 1
    /\ IsPrefix(log, <<"submit", "status", "fetch">>)
    /\ polls > 0 => submitOk
    /\ nFetch \in {0, 1}
    /\ nFetch = 1 => (submitOk /\ doneSeen /\ polls > 0)
    /\ (pc \notin {"start", "submit"} /\ ~submitOk /\ nSubmit = 1)
          => /\ pc = "returned"
             /\ Outcome(result) = "SubmitError"
             /\ log = <<"submit">>
             /\ polls = 0

\* A whole sequence: submit, three status calls, the results call.
C6_Witness ==
    /\ pc = "returned"
    /\ log = <<"submit", "status", "fetch">>
    /\ polls = 3
    /\ Outcome(result) = "Completed"

\* The second invocation has returned undisturbed, as the first one did.
Comparable ==
    /\ round = 2
    /\ pc = "returned"
    /\ Undisturbed

SameCallsAndOutcome ==
    /\ prev.log = log
    /\ prev.polls = polls
    /\ prev.outcome = Outcome(result)
    /\ prev.cause = result.cause

\* C7 (as claimed): against the same answers, without cancellation or deadline
\* expiry, the two front ends make the same calls at the same offsets after
\* the submission and reach the same outcome.
C7_SameMachine ==
    Comparable => (SameCallsAndOutcome /\ prev.firstPollAt = firstPollAt)

\* C7 (amended): they make the same calls in the same order and reach the
\* same outcome, but not at the same offsets: runSearch makes its first status
\* call as soon as the submit returns, searchHandler not before the first tick.
C7_SameCallsDifferentOffsets ==
    /\ Comparable => SameCallsAndOutcome
    /\ firstPollAt # -1 =>
         IF fe = "cli" THEN firstPollAt = 0 ELSE firstPollAt >= TickInterval

C7_Witness ==
    /\ Comparable
    /\ Outcome(result) = "Completed"
    /\ polls = MaxRuns + 1
    /\ prev.firstPollAt # firstPollAt

\* C8: under FairSpec every tool call whose submit succeeded returns, and with
\* the timed-out error unless it received a done snapshot or a status call
\* failed: a job that never reports done ends in "Search timed out after 60
\* seconds".
C8_McpReturns ==
    (fe = "mcp" /\ submitOk)
        ~> (/\ pc = "returned"
            /\ (doneSeen \/ statusFailed \/ result = mcpTimedOut))

\* The job never reported done, no call failed, and the tool call has returned
\* timed out after polling more than MaxRuns times.
C8_Witness ==
    /\ fe = "mcp"
    /\ pc = "returned"
    /\ remote.final = "never"
    /\ ~statusFailed
    /\ polls = MaxRuns + 1
    /\ result = mcpTimedOut
    /\ result.isError
    /\ nFetch = 0

\* C9: runSearch has no deadline: it never returns TimedOut and has no timer;
\* after a successful submit it stays in its loop (status call, sleep) until a
\* done snapshot or a failed status call; consecutive status calls are at
\* least SleepInterval apart.
C9_CliHasNoDeadline ==
    fe = "cli" =>
        /\ Outcome(result) # "TimedOut"
        /\ ~timeoutReady /\ ~tickReady /\ pc # "select"
        /\ (submitOk /\ ~doneSeen /\ ~statusFailed) => pc \in {"status", "sleep"}
        /\ polls >= 1 => clock >= SleepInterval * (polls - 1)

\* runSearch is still polling after more than Deadline time units.
C9_Witness ==
    /\ fe = "cli"
    /\ pc = "status"
    /\ inflight # {}
    /\ clock > Deadline
    /\ ~cancelled
    /\ ~doneSeen

\* The text q, its leading white space skipped, starts with the literal p.
StartsWith(q, p) ==
    \E i \in 0..Len(q) :
        /\ \A j \in 1..i : IsSpace(q[j])
        /\ i < Len(q) => ~IsSpace(q[i + 1])
        /\ i + Len(p) <= Len(q)
        /\ \A j \in 1..Len(p) : q[i + j] = p[j]

\* What the claim says is submitted for the query argument q.
Expected(q) ==
    IF ~StartsWith(q, SearchKeyword) /\ ~StartsWith(q, Pipe)
    THEN <<"s", "e", "a", "r", "c", "h", " ">> \o q
    ELSE q

\* C10: either front end submits "search " followed by the untrimmed query
\* argument when the trimmed argument starts neither with "search" nor with
\* "|", and the argument unchanged otherwise; the text submitted, given as the
\* argument again, is submitted unchanged.
C10_Normalization ==
    /\ Len(submitted) >= 1 => submitted[1] = Expected(query)
    /\ Len(submitted) = 2 => submitted[2] = submitted[1]

\* An argument with leading white space and no keyword got the prefix from the
\* command line, and the tool call then submitted that text as it was.
C10_Witness ==
    /\ Len(query) >= 3
    /\ Len(submitted) = 2
    /\ by = <<"cli", "mcp">>
    /\ IsSpace(query[1])
    /\ ~StartsWith(query, SearchKeyword)
    /\ submitted[1] = SearchPrefix \o query
    /\ submitted[2] = submitted[1]

\* The text q, its leading white space skipped, starts with the keyword
\* "search" as a whole token: the end of the text or white space follows it.
StartsWithSearchToken(q) ==
    \E i \in 0..Len(q) :
        /\ \A j \in 1..i : IsSpace(q[j])
        /\ i + Len(SearchKeyword) <= Len(q)
        /\ \A j \in 1..Len(SearchKeyword) : q[i + j] = SearchKeyword[j]
        /\ i + Len(SearchKeyword) < Len(q) => IsSpace(q[i + Len(SearchKeyword) + 1])

WellFormed(q) == StartsWith(q, Pipe) \/ StartsWithSearchToken(q)

\* C11 (as claimed): every query text handed to client.RunSearch starts, after
\* its leading white space, with "|" or with the keyword "search" as a whole
\* token.
C11_SubmittedIsWellFormed ==
    \A i \in 1..Len(submitted) : WellFormed(submitted[i])

\* C12 (as claimed): for a query that is empty after trimming white space no
\* submit call is made, nothing is handed to the client or put on the wire,
\* and the invocation ends with an error.
C12_NoSubmitForBlankQuery ==
    (queryArg = "string" /\ TrimSpace(query) = <<>>)
        => /\ nSubmit = 0
           /\ inflight = {}
           /\ pc = "returned" => result.isError

Completed == [stage |-> "fetch", kind |-> "ok"]

\* C13: searchHandler never returns an error value: whatever goes wrong (the
\* query argument missing or not a string, a failed or cancelled call, the
\* deadline), it has returned a result with the error flag set; the flag is
\* clear only after a results call that succeeded; and an argument that is not
\* a string is rejected with no call made.
C13_McpErrorsAreFlaggedResults ==
    fe = "mcp"
        => /\ ~result.goErr
           /\ ending.kind \notin {"none", "ok"} => (pc = "returned" /\ result.isError)
           /\ pc = "returned" => (result.isError <=> ending # Completed)
           /\ ending.stage = "argument"
                => /\ nSubmit = 0
                   /\ log = <<>>
                   /\ inflight = {}
                   /\ \A i \in 1..Len(by) : by[i] # "mcp"

\* A tool call whose query argument is a number has returned.
C13_Witness ==
    /\ fe = "mcp"
    /\ queryArg = "number"
    /\ pc = "returned"
    /\ result.isError
    /\ ~result.goErr
    /\ nSubmit = 0

\* C14: runSearch returns an error, and main exits with status 1 and an error
\* line, whenever the submit, a status call or the results call has failed; it
\* returns nil only after a results call that succeeded, made after a done
\* snapshot.
C14_CliErrorIffFailure ==
    fe = "cli"
        => /\ ending.kind \notin {"none", "ok"}
                => /\ pc = "returned"
                   /\ result.goErr
                   /\ mainExit(result).status = 1
                   /\ mainExit(result).stderr # <<>>
           /\ (pc = "returned" /\ ~result.goErr)
                => /\ ending = Completed
                   /\ doneSeen
                   /\ nFetch = 1
                   /\ mainExit(result).status = 0

\* The results call of a command-line search was rejected after three polls.
C14_Witness ==
    /\ fe = "cli"
    /\ pc = "returned"
    /\ ending = [stage |-> "fetch", kind |-> "rejected"]
    /\ polls = 3
    /\ mainExit(result).status = 1

\* The row cap the claim names: max_results when given, else 100, for a tool
\* call; 100 for the command line.
NamedMaxCount ==
    IF fe = "mcp" /\ maxResultsArg.given THEN maxResultsArg.value ELSE 100

\* C15: the results request carries a row cap exactly when maxCount is
\* positive, and the cap is maxCount: max_results (100 when not given) for a
\* tool call, 100 for the command line, whatever ResultCount the done snapshot
\* reports.
C15_RowCap ==
    fetchReq # NoFetch
        => /\ fetchReq.hasCount <=> NamedMaxCount > 0
           /\ fetchReq.hasCount => fetchReq.count = NamedMaxCount

\* A tool call with max_results 0 asked for the results of a job with rows
\* without a cap.
C15_WitnessNoCap ==
    /\ fe = "mcp"
    /\ maxResultsArg = [given |-> TRUE, value |-> 0]
    /\ resultCount = MaxRows
    /\ fetchReq = [path |-> "/results", hasCount |-> FALSE, count |-> 0]

\* The outcome that names what ended the invocation.
NamedOutcome ==
    IF ending.stage = "argument" THEN "ArgumentError"
    ELSE IF ending.kind = "cancelled" THEN "Cancelled"
    ELSE IF ending.stage = "deadline" THEN "TimedOut"
    ELSE IF ending = Completed THEN "Completed"
    ELSE IF ending.stage = "submit" THEN "SubmitError"
    ELSE IF ending.stage = "status" THEN "PollError"
    ELSE "FetchError"

\* C16 (as claimed): the result returned tells the stage and the kind of what
\* ended the invocation: a failed submit, status call or results call each by
\* an outcome of its own, the deadline and a cancellation each by an outcome
\* that is none of these.
C16_OutcomeTellsStageAndKind ==
    pc = "returned" => Outcome(result) = NamedOutcome

\* C17: a client is made, and a request sent, only with a host and a token
\* that are both non-empty; an entry point that returned an error made no
\* client and sent nothing; and every request of the process carries the host
\* and token the client was made with, whatever is stored meanwhile.
C17_RequestsNeedCredentials ==
    /\ api.made => (api.host # "" /\ api.token # "" /\ cpc = "ready")
    /\ cpc = "failed" => (~api.made /\ credErr # "nil")
    /\ cpc # "ready" => (sent = {} /\ nSent = 0)
    /\ \A r \in sent : r.host # "" /\ r.token # "" /\ r.host = api.host /\ r.token = api.token
    /\ Cardinality(sent) <= 1

\* Two requests were sent with the host and token of the start, after other
\* ones were stored.
C17_Witness ==
    /\ nSent = MaxRequests
    /\ stored
    /\ sent = {[host |-> "h1", token |-> "tk"]}
    /\ cfgFile.host = "h2"

\* C18 (as claimed): with SPLUNK_HOST and SPLUNK_TOKEN set, no readable config
\* file and no keyring entry, either entry point makes its client with the
\* host and token of the environment.
C18_EnvironmentConfigures ==
    (/\ envHost # ""
     /\ envToken # ""
     /\ cfgFile = NoFile
     /\ \A h \in Hosts : keyring[h] = NoEntry
     /\ cpc # "start")
        => /\ cpc = "ready"
           /\ api = [made |-> TRUE, host |-> envHost, token |-> envToken]

\* The response is none, has a status other than 2xx, or a body that is no
\* JSON.
FailedResponse ==
    \/ ~callRaw.arrived
    \/ callRaw.code \notin 200..299
    \/ callRaw.body = "garbage"

\* C19 (as claimed): a client method returns an error and no decoded value
\* whenever the transport fails, the status is not a success status or the body
\* is not decodable; the error for a rejected status carries the status code
\* and the response body.
C19_FailuresSurface ==
    answer # NoAnswer
        => /\ FailedResponse => (answer.err # "nil" /\ answer.value = "none")
           /\ (~callCtxDone /\ callRaw.arrived /\ callRaw.code \notin 200..299)
                => (answer.status = callRaw.code /\ answer.detail = callRaw.body)

\* C20 (as claimed): every status request and the results request on the wire
\* carries the job identifier the submit of this invocation returned, and that
\* identifier is not empty: after a submit response without a sid there is no
\* polling with an empty identifier.
C20_RequestsCarryTheSid ==
    \A q \in inflight :
        q.kind \in {"status", "fetch"} => (q.sid = sid /\ q.sid # "")

C21_ConfigureAllOrNothing ==
    confPc = "returned"
        => /\ confErr # "nil" => (cfgFile = before.file /\ keyring = before.kr)
           /\ confErr = "nil"
                => /\ cfgFile = [ok |-> TRUE, host |-> hostArg]
                   /\ keyring[hostArg] = [ok |-> TRUE, token |-> tokenIn.token]

====
